---------------------------- MODULE Spec2Model ----------------------------
(***************************************************************************)
(* Quidquid (src/src/index.ts): typed, fail-fast extraction of fields from *)
(* untyped decoded data.  An accessor wraps a value (quidQuid) and an      *)
(* optional parent key (parentObjectKey).  Every accessor method is an     *)
(* async function: it runs synchronously up to its first await (the zod    *)
(* safeParseAsync call) and is resumed later.  The model keeps the         *)
(* accessor objects in a heap, one suspended frame per caller, and the     *)
(* most recently settled call.                                             *)
(***************************************************************************)
EXTENDS Integers, Sequences, FiniteSets, TLC

VARIABLES heap, origin, pend, last

vars == <<heap, origin, pend, last>>

\* ------------------------------------------------------------------ bounds
\* Accessor objects constructed in one run (from + children): when every
\* call is awaited before the next, and when calls are fanned out.
MaxAccessors == 3
MaxAccessorsFanOut == 2

\* Tasks that may each have one accessor call in flight.
Callers == {"p", "q"}

\* Field names used as keys; "" is a legal JavaScript property name.
Keys == {"", "a", "b"}

\* ------------------------------------------------- JavaScript values (any)
Undefined == [t |-> "undefined"]
Null == [t |-> "null"]
Bool(b) == [t |-> "boolean", v |-> b]
Num(n) == [t |-> "number", v |-> n]
NaN == [t |-> "NaN"]
Str(s) == [t |-> "string", v |-> s]
Arr(s) == [t |-> "array", v |-> s]
Obj(f) == [t |-> "object", v |-> f]
\* A reference to an accessor object of the heap.
Ref(i) == [t |-> "Quidquid", v |-> i]

\* `!value`
Falsy(value) ==
    \/ value.t \in {"undefined", "null", "NaN"}
    \/ value.t = "boolean" /\ value.v = FALSE
    \/ value.t = "number" /\ value.v = 0
    \/ value.t = "string" /\ value.v = ""

\* `value == undefined`
EqUndefined(value) == value.t \in {"undefined", "null"}

\* ------------------------------------------------------- call outcomes
Return(value) == [kind |-> "return", value |-> value]
Throw(message) == [kind |-> "throw", name |-> "Error", message |-> message]
\* Reading a property of undefined or null.
TypeError ==
    [kind |-> "throw", name |-> "TypeError",
     message |-> "Cannot read properties of undefined"]
\* An async function suspended at `await ...safeParseAsync(value)`.
Await(method, key, value, label) ==
    [kind |-> "await", method |-> method, key |-> key, value |-> value,
     label |-> label]

\* `this.quidQuid[key]`: a TypeError outcome when quidQuid is undefined or
\* null, the own property when quidQuid is an object, and undefined on any
\* other value (no key of Keys is a built-in property or an index).
Read(quidQuid, key) ==
    IF EqUndefined(quidQuid) THEN TypeError
    ELSE IF quidQuid.t = "object" /\ key.v \in DOMAIN quidQuid.v
         THEN quidQuid.v[key.v]
    ELSE Undefined

IsThrow(r) == r = TypeError

\* ------------------------------------------------------------ zod schemas
zString(value) == value.t = "string"
zNumber(value) == value.t = "number"
zBoolean(value) == value.t = "boolean"
zObject(value) == value.t = "object"
\* z.array(schema), schema one of z.string(), z.number(), z.object({}).
zArray(schema, value) ==
    /\ value.t = "array"
    /\ \A i \in DOMAIN value.v :
          CASE schema = "string" -> zString(value.v[i])
            [] schema = "number" -> zNumber(value.v[i])
            [] schema = "object" -> zObject(value.v[i])

\* ---------------------------------------------------------------- Quidquid
Quidquid(quidQuid, parentObjectKey) ==
    [quidQuid |-> quidQuid, parentObjectKey |-> parentObjectKey]

from(quidQuid) == Quidquid(quidQuid, Undefined)

pickFullkeyName(this, key) ==
    IF Falsy(this.parentObjectKey) THEN key.v
    ELSE this.parentObjectKey.v \o "." \o key.v


\* ---- strings
pickStringSync(this, key) ==
    LET value == Read(this.quidQuid, key)
        fullKeyName == pickFullkeyName(this, key)
    IN  IF IsThrow(value) THEN value
        ELSE IF Falsy(value) THEN Throw(fullKeyName \o " must not be empty")
        ELSE Await("pickString", key, value, fullKeyName)

\* Mutant: the parse result is never looked at.
pickStringResume_unchecked(f) == Return(f.value)

pickStringResume(f) ==
    IF ~zString(f.value) THEN Throw(f.label \o " must be a string")
    ELSE Return(f.value)

pickStringOptionalSync(this, key) ==
    LET value == Read(this.quidQuid, key)
    IN  IF IsThrow(value) THEN value
        ELSE IF Falsy(value) THEN Return(Undefined)
        ELSE pickStringSync(this, key)

pickStringArraySync(this, key) ==
    IF Falsy(key)
    THEN LET value == this.quidQuid
         IN  IF EqUndefined(value) THEN Throw("body must not be empty")
             ELSE Await("pickStringArray", key, value, "body")
    ELSE LET fullKeyName == pickFullkeyName(this, key)
             value == Read(this.quidQuid, key)
         IN  IF IsThrow(value) THEN value
             ELSE IF EqUndefined(value)
                  THEN Throw(fullKeyName \o " must not be empty")
             ELSE Await("pickStringArray", key, value, fullKeyName)

pickStringArrayResume(f) ==
    IF ~zArray("string", f.value)
    THEN Throw(f.label \o " must be an array of strings")
    ELSE Return(f.value)

pickStringArrayOptionalSync(this, key) ==
    LET value == Read(this.quidQuid, key)
    IN  IF IsThrow(value) THEN value
        ELSE IF EqUndefined(value) THEN Return(Undefined)
        ELSE pickStringArraySync(this, key)

\* ---- numbers
pickNumberSync(this, key) ==
    LET fullKeyName == pickFullkeyName(this, key)
        value == Read(this.quidQuid, key)
    IN  IF IsThrow(value) THEN value
        ELSE IF EqUndefined(value)
             THEN Throw(fullKeyName \o " must not be empty")
        ELSE Await("pickNumber", key, value, fullKeyName)

pickNumberResume(f) ==
    IF ~zNumber(f.value) THEN Throw(f.label \o " must be a number")
    ELSE Return(f.value)

\* Mutant: the presence test of the string accessors, `!value`.
pickNumberOptionalSync_falsy(this, key) ==
    LET value == Read(this.quidQuid, key)
    IN  IF IsThrow(value) THEN value
        ELSE IF Falsy(value) THEN Return(Undefined)
        ELSE pickNumberSync(this, key)

pickNumberOptionalSync(this, key) ==
    LET value == Read(this.quidQuid, key)
    IN  IF IsThrow(value) THEN value
        ELSE IF EqUndefined(value) THEN Return(Undefined)
        ELSE pickNumberSync(this, key)

pickNumberArraySync(this, key) ==
    IF Falsy(key)
    THEN LET value == this.quidQuid
         IN  IF EqUndefined(value) THEN Throw("body must not be empty")
             ELSE Await("pickNumberArray", key, value, "body")
    ELSE LET value == Read(this.quidQuid, key)
             fullKeyName == pickFullkeyName(this, key)
         IN  IF IsThrow(value) THEN value
             ELSE IF EqUndefined(value)
                  THEN Throw(fullKeyName \o " must not be empty")
             ELSE Await("pickNumberArray", key, value, fullKeyName)

\* Mutant: the schema is z.array(z.any()).
pickNumberArrayResume_anyArray(f) ==
    IF f.value.t # "array"
    THEN Throw(f.label \o " must be an array of numbers")
    ELSE Return(f.value)

pickNumberArrayResume(f) ==
    IF ~zArray("number", f.value)
    THEN Throw(f.label \o " must be an array of numbers")
    ELSE Return(f.value)

pickNumberArrayOptionalSync(this, key) ==
    LET value == Read(this.quidQuid, key)
    IN  IF IsThrow(value) THEN value
        ELSE IF EqUndefined(value) THEN Return(Undefined)
        ELSE pickNumberArraySync(this, key)

\* ---- booleans
pickBooleanSync(this, key) ==
    LET fullKeyName == pickFullkeyName(this, key)
        value == Read(this.quidQuid, key)
    IN  IF IsThrow(value) THEN value
        ELSE IF EqUndefined(value)
             THEN Throw(fullKeyName \o " must not be empty")
        ELSE Await("pickBoolean", key, value, fullKeyName)

pickBooleanResume(f) ==
    IF ~zBoolean(f.value) THEN Throw(f.label \o " must be a boolean")
    ELSE Return(f.value)

pickBooleanOptionalSync(this, key) ==
    LET value == Read(this.quidQuid, key)
    IN  IF IsThrow(value) THEN value
        ELSE IF EqUndefined(value) THEN Return(Undefined)
        ELSE pickBooleanSync(this, key)

\* ---- objects
pickObjectSync(this, key) ==
    LET fullKeyName == pickFullkeyName(this, key)
        value == Read(this.quidQuid, key)
    IN  IF IsThrow(value) THEN value
        ELSE IF EqUndefined(value)
             THEN Throw(fullKeyName \o " must not be empty")
        ELSE Await("pickObject", key, value, fullKeyName)

\* The accessor `new Quidquid(value, key)` of line 204.
pickObjectChild(value, key) == Quidquid(value, key)

pickObjectOptionalSync(this, key) ==
    LET value == Read(this.quidQuid, key)
    IN  IF IsThrow(value) THEN value
        ELSE IF EqUndefined(value) THEN Return(Undefined)
        ELSE pickObjectSync(this, key)

pickObjectArraySync(this, key) ==
    IF Falsy(key)
    THEN LET value == this.quidQuid
         IN  IF EqUndefined(value) THEN Throw("body must not be empty")
             ELSE Await("pickObjectArray", key, value, "body")
    ELSE LET fullKeyName == pickFullkeyName(this, key)
             value == Read(this.quidQuid, key)
         IN  IF IsThrow(value) THEN value
             ELSE IF EqUndefined(value)
                  THEN Throw(fullKeyName \o " must not be empty")
             ELSE Await("pickObjectArray", key, value, fullKeyName)

\* The accessor `new Quidquid(quidQuid)` that value.map makes of one element.
pickObjectArrayChild(quidQuid) == Quidquid(quidQuid, Undefined)

pickObjectArrayOptionalSync(this, key) ==
    LET value == Read(this.quidQuid, key)
    IN  IF IsThrow(value) THEN value
        ELSE IF EqUndefined(value) THEN Return(Undefined)
        ELSE pickObjectArraySync(this, key)

\* What the code after the await does with the suspended frame f: the
\* outcome, and the accessors it constructs (next is the first free heap
\* index).
pickObjectResume(f, next) ==
    IF ~zObject(f.value)
    THEN [out |-> Throw(f.label \o " must be an object"), new |-> <<>>]
    ELSE [out |-> Return(Ref(next)),
          new |-> <<pickObjectChild(f.value, f.key)>>]

\* Mutant: each element is wrapped as pickObject wraps its value, with
\* the key as path prefix.
pickObjectArrayResume_keyed(f, next) ==
    IF ~zArray("object", f.value)
    THEN [out |-> Throw(f.label \o " must be an array of objects"),
          new |-> <<>>]
    ELSE [out |-> Return(Arr([i \in DOMAIN f.value.v |-> Ref(next + i - 1)])),
          new |-> [i \in DOMAIN f.value.v |->
                      pickObjectChild(f.value.v[i], f.key)]]

pickObjectArrayResume(f, next) ==
    IF ~zArray("object", f.value)
    THEN [out |-> Throw(f.label \o " must be an array of objects"),
          new |-> <<>>]
    ELSE [out |-> Return(Arr([i \in DOMAIN f.value.v |-> Ref(next + i - 1)])),
          new |-> [i \in DOMAIN f.value.v |->
                      pickObjectArrayChild(f.value.v[i])]]

Resume(f, next) ==
    CASE f.method = "pickString" -> [out |-> pickStringResume(f), new |-> <<>>]
      [] f.method = "pickStringArray" ->
            [out |-> pickStringArrayResume(f), new |-> <<>>]
      [] f.method = "pickNumber" -> [out |-> pickNumberResume(f), new |-> <<>>]
      [] f.method = "pickNumberArray" ->
            [out |-> pickNumberArrayResume(f), new |-> <<>>]
      [] f.method = "pickBoolean" ->
            [out |-> pickBooleanResume(f), new |-> <<>>]
      [] f.method = "pickObject" -> pickObjectResume(f, next)
      [] f.method = "pickObjectArray" -> pickObjectArrayResume(f, next)

\* ------------------------------------------------------------ test payloads
X1 == Obj("a" :> Num(1))
X2 == Obj("a" :> Num(2))

Leaves ==
    { Null, Bool(FALSE), Bool(TRUE), Num(0), Num(1), NaN, Str(""), Str("s"),
      Arr(<<>>), Arr(<<Str("a"), Str("b")>>), Arr(<<Num(1), Num(2)>>),
      Arr(<<Num(1), Str("x"), Num(3)>>), Arr(<<X1, X2>>), Obj(<<>>) }

Nested ==
    { Obj("a" :> Obj("b" :> Obj(<<>>))),
      Obj("a" :> Obj("b" :> Str("s")) @@ "b" :> Num(0)),
      Obj("a" :> Obj("b" :> Arr(<<X1>>))),
      Obj("b" :> Obj("a" :> Obj("a" :> Bool(FALSE)))) }

\* The decoded values an accessor is made from.
Roots ==
    {Undefined} \cup Leaves
    \cup {Obj(k :> l) : k \in Keys, l \in Leaves}
    \cup {Obj("a" :> Obj(k :> l)) : k \in Keys, l \in Leaves}
    \cup Nested

\* The payloads of the runs with two calls in flight.
ConcRoots ==
    { Obj("a" :> Obj("b" :> Str("s")) @@ "b" :> Num(0)) }

\* ------------------------------------------------------------ state machine
Idle == [kind |-> "idle"]
None == [kind |-> "none"]

KeyArgs == {Str(k) : k \in Keys}
OptKeyArgs == KeyArgs \cup {Undefined}

\* Accessors a suspended frame constructs when it is resumed.
Needs(f) == Len(Resume(f, 0).new)

Limit ==
    IF DOMAIN pend = Callers THEN MaxAccessorsFanOut ELSE MaxAccessors

Reserved ==
    LET RECURSIVE Sum(_)
        Sum(S) == IF S = {} THEN 0
                  ELSE LET c == CHOOSE x \in S : TRUE
                           n == IF pend[c].kind = "await"
                                THEN Needs(pend[c]) ELSE 0
                       IN  n + Sum(S \ {c})
    IN  Sum(DOMAIN pend)

\* Caller c is a task of the run with no call in flight, and self is an
\* accessor that exists.
CanCall(c, self) ==
    /\ c \in DOMAIN pend
    /\ self \in DOMAIN heap
    /\ pend[c] = Idle

\* Caller c calls `entry` on accessor self: the synchronous part r of the
\* async function either settles the call at once or leaves a frame.
Begin(c, entry, self, key, r) ==
    /\ IF r.kind = "await"
       THEN /\ Len(heap) + Reserved + Needs(r) <= Limit
            /\ pend' = [pend EXCEPT ![c] =
                          [kind |-> "await", method |-> r.method,
                           key |-> r.key, value |-> r.value,
                           label |-> r.label, entry |-> entry,
                           self |-> self]]
            /\ last' = None
       ELSE /\ pend' = pend
            /\ last' = [kind |-> "settled", entry |-> entry, self |-> self,
                        key |-> key, out |-> r]
    /\ UNCHANGED <<heap, origin>>

pickString(c, self, key) ==
    /\ CanCall(c, self)
    /\ Begin(c, "pickString", self, key,
             pickStringSync(heap[self], key))

pickStringOptional(c, self, key) ==
    /\ CanCall(c, self)
    /\ Begin(c, "pickStringOptional", self, key,
             pickStringOptionalSync(heap[self], key))

pickStringArray(c, self, key) ==
    /\ CanCall(c, self)
    /\ Begin(c, "pickStringArray", self, key,
             pickStringArraySync(heap[self], key))

pickStringArrayOptional(c, self, key) ==
    /\ CanCall(c, self)
    /\ Begin(c, "pickStringArrayOptional", self, key,
             pickStringArrayOptionalSync(heap[self], key))

pickNumber(c, self, key) ==
    /\ CanCall(c, self)
    /\ Begin(c, "pickNumber", self, key,
             pickNumberSync(heap[self], key))

pickNumberOptional(c, self, key) ==
    /\ CanCall(c, self)
    /\ Begin(c, "pickNumberOptional", self, key,
             pickNumberOptionalSync(heap[self], key))

pickNumberArray(c, self, key) ==
    /\ CanCall(c, self)
    /\ Begin(c, "pickNumberArray", self, key,
             pickNumberArraySync(heap[self], key))

pickNumberArrayOptional(c, self, key) ==
    /\ CanCall(c, self)
    /\ Begin(c, "pickNumberArrayOptional", self, key,
             pickNumberArrayOptionalSync(heap[self], key))

pickBoolean(c, self, key) ==
    /\ CanCall(c, self)
    /\ Begin(c, "pickBoolean", self, key,
             pickBooleanSync(heap[self], key))

pickBooleanOptional(c, self, key) ==
    /\ CanCall(c, self)
    /\ Begin(c, "pickBooleanOptional", self, key,
             pickBooleanOptionalSync(heap[self], key))

pickObject(c, self, key) ==
    /\ CanCall(c, self)
    /\ Begin(c, "pickObject", self, key,
             pickObjectSync(heap[self], key))

pickObjectOptional(c, self, key) ==
    /\ CanCall(c, self)
    /\ Begin(c, "pickObjectOptional", self, key,
             pickObjectOptionalSync(heap[self], key))

pickObjectArray(c, self, key) ==
    /\ CanCall(c, self)
    /\ Begin(c, "pickObjectArray", self, key,
             pickObjectArraySync(heap[self], key))

pickObjectArrayOptional(c, self, key) ==
    /\ CanCall(c, self)
    /\ Begin(c, "pickObjectArrayOptional", self, key,
             pickObjectArrayOptionalSync(heap[self], key))

\* Mutant: pickObject records the key on the accessor it was called on
\* before it constructs the child.
Settle_overwritesParent(c) ==
    /\ c \in DOMAIN pend
    /\ pend[c].kind = "await"
    /\ LET f == pend[c]
           r == Resume(f, Len(heap) + 1)
           h == IF f.method = "pickObject" /\ r.out.kind = "return"
                THEN [heap EXCEPT ![f.self].parentObjectKey = f.key]
                ELSE heap
       IN  /\ heap' = h \o r.new
           /\ origin' = origin \o
                 [i \in DOMAIN r.new |->
                    [via |-> f.method, parent |-> f.self, key |-> f.key,
                     idx |-> i, made |-> r.new[i]]]
           /\ last' = [kind |-> "settled", entry |-> f.entry, self |-> f.self,
                       key |-> f.key, out |-> r.out]
    /\ pend' = [pend EXCEPT ![c] = Idle]

\* The validation call-out of caller c's frame completes and the rest of
\* the method runs: it throws, returns the value, or constructs the child
\* accessors and returns them.
Settle(c) ==
    /\ c \in DOMAIN pend
    /\ pend[c].kind = "await"
    /\ LET f == pend[c]
           r == Resume(f, Len(heap) + 1)
       IN  /\ heap' = heap \o r.new
           /\ origin' = origin \o
                 [i \in DOMAIN r.new |->
                    [via |-> f.method, parent |-> f.self, key |-> f.key,
                     idx |-> i, made |-> r.new[i]]]
           /\ last' = [kind |-> "settled", entry |-> f.entry, self |-> f.self,
                       key |-> f.key, out |-> r.out]
    /\ pend' = [pend EXCEPT ![c] = Idle]

\* How the root accessor came to be: by from, of no parent.
Made(root) ==
    [via |-> "from", parent |-> 0, key |-> Undefined, idx |-> 0,
     made |-> root]

Init ==
    /\ \E r \in Roots :
          /\ heap = <<from(r)>>
          /\ origin = <<Made(from(r))>>
    /\ pend = [c \in {"p"} |-> Idle]
    /\ last = None

InitConc ==
    /\ \E r \in ConcRoots :
          /\ heap = <<from(r)>>
          /\ origin = <<Made(from(r))>>
    /\ pend = [c \in Callers |-> Idle]
    /\ last = None

Call(c) ==
    \E self \in 1..MaxAccessors :
        \/ \E key \in KeyArgs :
              \/ pickString(c, self, key)
              \/ pickStringOptional(c, self, key)
              \/ pickStringArrayOptional(c, self, key)
              \/ pickNumber(c, self, key)
              \/ pickNumberOptional(c, self, key)
              \/ pickNumberArrayOptional(c, self, key)
              \/ pickBoolean(c, self, key)
              \/ pickBooleanOptional(c, self, key)
              \/ pickObject(c, self, key)
              \/ pickObjectOptional(c, self, key)
              \/ pickObjectArrayOptional(c, self, key)
        \/ \E key \in OptKeyArgs :
              \/ pickStringArray(c, self, key)
              \/ pickNumberArray(c, self, key)
              \/ pickObjectArray(c, self, key)

\* The tasks of the run are those of pend's domain: the callers that may
\* each have one call in flight.
Next ==
    \E c \in Callers :
        \/ Call(c)
        \/ Settle(c)

Spec == Init /\ [][Next]_vars

SpecConc == InitConc /\ [][Next]_vars

\* ------------------------------------------------ vocabulary of the claims
Settled == last.kind = "settled"

\* The accessor the settled call was made on, and the field it names.
This == heap[last.self]
Field == Read(This.quidQuid, last.key)
FieldRead == last.key # Undefined /\ ~EqUndefined(This.quidQuid)

\* The key prefixed by the accessor's dotted path prefix when it has one.
FullName(acc, key) ==
    IF acc.parentObjectKey \in {Undefined, Str("")} THEN key.v
    ELSE acc.parentObjectKey.v \o "." \o key.v

MissingField(name) == Throw(name \o " must not be empty")
InvalidType(name, what) == Throw(name \o " must be " \o what)

\* The required accessor an entry point stands for, and what it expects.
Required(entry) ==
    CASE entry \in {"pickString", "pickStringOptional"} -> "pickString"
      [] entry \in {"pickNumber", "pickNumberOptional"} -> "pickNumber"
      [] entry \in {"pickBoolean", "pickBooleanOptional"} -> "pickBoolean"
      [] entry \in {"pickObject", "pickObjectOptional"} -> "pickObject"
      [] entry \in {"pickStringArray", "pickStringArrayOptional"} ->
            "pickStringArray"
      [] entry \in {"pickNumberArray", "pickNumberArrayOptional"} ->
            "pickNumberArray"
      [] entry \in {"pickObjectArray", "pickObjectArrayOptional"} ->
            "pickObjectArray"

What(method) ==
    CASE method = "pickString" -> "a string"
      [] method = "pickNumber" -> "a number"
      [] method = "pickBoolean" -> "a boolean"
      [] method = "pickObject" -> "an object"
      [] method = "pickStringArray" -> "an array of strings"
      [] method = "pickNumberArray" -> "an array of numbers"
      [] method = "pickObjectArray" -> "an array of objects"

OfKind(method, value) ==
    CASE method = "pickString" -> value.t = "string"
      [] method = "pickNumber" -> value.t = "number"
      [] method = "pickBoolean" -> value.t = "boolean"
      [] method = "pickObject" -> value.t = "object"
      [] method = "pickStringArray" ->
            /\ value.t = "array"
            /\ \A i \in DOMAIN value.v : value.v[i].t = "string"
      [] method = "pickNumberArray" ->
            /\ value.t = "array"
            /\ \A i \in DOMAIN value.v : value.v[i].t = "number"
      [] method = "pickObjectArray" ->
            /\ value.t = "array"
            /\ \A i \in DOMAIN value.v : value.v[i].t = "object"

ScalarMethods == {"pickString", "pickNumber", "pickBoolean"}
ArrayMethods == {"pickStringArray", "pickNumberArray", "pickObjectArray"}
RequiredMethods == ScalarMethods \cup ArrayMethods \cup {"pickObject"}
OptionalMethods ==
    {"pickStringOptional", "pickNumberOptional", "pickBooleanOptional",
     "pickObjectOptional", "pickStringArrayOptional",
     "pickNumberArrayOptional", "pickObjectArrayOptional"}

\* Absent as the claims word it: undefined or null, and the empty string
\* for strings.
AbsentAsClaimed(method, value) ==
    \/ value \in {Undefined, Null}
    \/ method = "pickString" /\ value = Str("")

\* Absent as JavaScript's `!value` has it for strings: any falsy value.
AbsentFalsy(method, value) ==
    \/ value \in {Undefined, Null}
    \/ method = "pickString"
       /\ value \in {Str(""), Num(0), NaN, Bool(FALSE)}

\* An outcome with the accessors it returns in place of their references.
Observed(out, h) ==
    IF out.kind # "return" THEN out
    ELSE IF out.value.t = "Quidquid" THEN Return(h[out.value.v])
    ELSE IF out.value.t = "array"
         THEN Return(Arr([i \in DOMAIN out.value.v |->
                 IF out.value.v[i].t = "Quidquid"
                 THEN h[out.value.v[i].v] ELSE out.value.v[i]]))
    ELSE out

SyncOf(entry, this, key) ==
    CASE entry = "pickString" -> pickStringSync(this, key)
      [] entry = "pickStringOptional" -> pickStringOptionalSync(this, key)
      [] entry = "pickStringArray" -> pickStringArraySync(this, key)
      [] entry = "pickStringArrayOptional" ->
            pickStringArrayOptionalSync(this, key)
      [] entry = "pickNumber" -> pickNumberSync(this, key)
      [] entry = "pickNumberOptional" -> pickNumberOptionalSync(this, key)
      [] entry = "pickNumberArray" -> pickNumberArraySync(this, key)
      [] entry = "pickNumberArrayOptional" ->
            pickNumberArrayOptionalSync(this, key)
      [] entry = "pickBoolean" -> pickBooleanSync(this, key)
      [] entry = "pickBooleanOptional" -> pickBooleanOptionalSync(this, key)
      [] entry = "pickObject" -> pickObjectSync(this, key)
      [] entry = "pickObjectOptional" -> pickObjectOptionalSync(this, key)
      [] entry = "pickObjectArray" -> pickObjectArraySync(this, key)
      [] entry = "pickObjectArrayOptional" ->
            pickObjectArrayOptionalSync(this, key)

\* The outcome of `entry(key)` on accessor `this` when the call runs alone,
\* from its first statement to its last.
Alone(entry, this, key) ==
    LET r == SyncOf(entry, this, key)
    IN  IF r.kind # "await" THEN r
        ELSE LET q == Resume(r, 1) IN Observed(q.out, q.new)

\* ------------------------------------------------------------------- C1
\* Accessor i was reached from the root by pickObject calls alone.
RECURSIVE ObjectChain(_)
ObjectChain(i) ==
    \/ origin[i].via = "from"
    \/ origin[i].via = "pickObject" /\ ObjectChain(origin[i].parent)

\* The keys k1, ..., kn of those calls.
RECURSIVE PickedKeys(_)
PickedKeys(i) ==
    IF origin[i].via = "from" THEN <<>>
    ELSE PickedKeys(origin[i].parent) \o <<origin[i].key.v>>

RECURSIVE Dotted(_)
Dotted(path) ==
    IF Len(path) = 1 THEN path[1]
    ELSE Dotted(SubSeq(path, 1, Len(path) - 1)) \o "." \o path[Len(path)]

NonEmptyKeys(path) == \A i \in DOMAIN path : path[i] # ""

\* C1 (as claimed): after n >= 1 successful pickObject calls with keys
\* k1, ..., kn from a root accessor, the child's path prefix is its parent's
\* full name of the last key, and every failure of a call on field f of the
\* child carries the full dotted path k1.k2. ... .kn.f (stated for
\* non-empty keys).
C1_FullDottedPath ==
    /\ \A i \in DOMAIN heap :
          (origin[i].via = "pickObject" /\ ObjectChain(i)) =>
             heap[i].parentObjectKey =
                Str(FullName(heap[origin[i].parent], origin[i].key))
    /\ ( /\ Settled
         /\ last.key # Undefined
         /\ origin[last.self].via = "pickObject"
         /\ ObjectChain(last.self)
         /\ NonEmptyKeys(PickedKeys(last.self) \o <<last.key.v>>)
         /\ last.out.kind = "throw" ) =>
       LET path == Dotted(PickedKeys(last.self) \o <<last.key.v>>)
       IN  last.out \in {MissingField(path),
                         InvalidType(path, What(Required(last.entry)))}

\* ------------------------------------------------------------------- C2
\* C2 (as claimed): a required scalar accessor on a field that is present
\* (not undefined or null, and for pickString not the empty string) but not
\* of the accessor's kind fails with '<fullName> must be a <kind>'.
C2_WrongKindIsInvalidType ==
    ( /\ Settled
      /\ last.entry \in ScalarMethods
      /\ FieldRead
      /\ ~AbsentAsClaimed(last.entry, Field)
      /\ ~OfKind(last.entry, Field) ) =>
    last.out = InvalidType(FullName(This, last.key), What(last.entry))

\* C2 (amended): the same with present meaning, for pickString, any truthy
\* value: pickString reports 0, NaN and false as MissingField, like the
\* empty string.
C2_TruthyWrongKindIsInvalidType ==
    ( /\ Settled
      /\ last.entry \in ScalarMethods
      /\ FieldRead
      /\ ~AbsentFalsy(last.entry, Field)
      /\ ~OfKind(last.entry, Field) ) =>
    last.out = InvalidType(FullName(This, last.key), What(last.entry))

\* pickString on a nested accessor, on a field holding true.
C2_Witness ==
    /\ Settled
    /\ last.entry = "pickString"
    /\ FieldRead
    /\ Field = Bool(TRUE)
    /\ last.out = Throw("a.b must be a string")

\* ------------------------------------------------------------------- C3
\* C3 (as claimed): an optional accessor returns undefined iff the field is
\* undefined, null or (for strings) the empty string; on any other field
\* its outcome is that of the required accessor.
C3_OptionalIffAbsent ==
    ( /\ Settled
      /\ last.entry \in OptionalMethods
      /\ FieldRead ) =>
    /\ last.out = Return(Undefined)
          <=> AbsentAsClaimed(Required(last.entry), Field)
    /\ ~AbsentAsClaimed(Required(last.entry), Field) =>
          Observed(last.out, heap) = Alone(Required(last.entry), This, last.key)

\* C3 (amended): the same with absent meaning, for strings, any falsy value
\* (undefined, null, "", 0, NaN, false).
C3_OptionalIffFalsy ==
    ( /\ Settled
      /\ last.entry \in OptionalMethods
      /\ FieldRead ) =>
    /\ last.out = Return(Undefined)
          <=> AbsentFalsy(Required(last.entry), Field)
    /\ ~AbsentFalsy(Required(last.entry), Field) =>
          Observed(last.out, heap) = Alone(Required(last.entry), This, last.key)

\* pickNumberOptional on a field holding a string still fails.
C3_Witness ==
    /\ Settled
    /\ last.entry = "pickNumberOptional"
    /\ FieldRead
    /\ Field = Str("s")
    /\ last.out = Throw("a.b must be a number")

\* ------------------------------------------------------------------- C4
\* C4 (as claimed): every required accessor called with a key on an absent
\* field (undefined or null, or the empty string for pickString) fails
\* with '<fullName> must not be empty'.
C4_AbsentIsMissingField ==
    ( /\ Settled
      /\ last.entry \in RequiredMethods
      /\ FieldRead
      /\ AbsentAsClaimed(last.entry, Field) ) =>
    last.out = MissingField(FullName(This, last.key))

\* ------------------------------------------------------------------- C5
\* What a required accessor returns for a present value of its kind: the
\* value itself, or accessors wrapping it (pickObject) or its elements
\* (pickObjectArray).
ReturnsUnchanged(method, out, value) ==
    /\ out.kind = "return"
    /\ CASE method = "pickObject" ->
               /\ out.value.t = "Quidquid"
               /\ heap[out.value.v].quidQuid = value
         [] method = "pickObjectArray" ->
               /\ out.value.t = "array"
               /\ DOMAIN out.value.v = DOMAIN value.v
               /\ \A i \in DOMAIN value.v :
                     /\ out.value.v[i].t = "Quidquid"
                     /\ heap[out.value.v[i].v].quidQuid = value.v[i]
         [] OTHER -> out.value = value

\* C5 (as claimed): every present value of the correct kind is returned
\* unchanged by the required accessor called with the field's key; 0,
\* false, [] and {} are present.
C5_PresentIsReturned ==
    ( /\ Settled
      /\ last.entry \in RequiredMethods
      /\ FieldRead
      /\ ~AbsentAsClaimed(last.entry, Field)
      /\ OfKind(last.entry, Field) ) =>
    ReturnsUnchanged(last.entry, last.out, Field)

\* ------------------------------------------------------------------- C6
\* C6 (as claimed): every call returns, or fails with MissingField or
\* InvalidType; no other failure is raised.
C6_TwoErrorKinds ==
    Settled =>
       \/ last.out.kind = "return"
       \/ \E name \in {"body"} \cup
                      (IF last.key = Undefined THEN {}
                       ELSE {FullName(This, last.key)}) :
             last.out \in {MissingField(name),
                           InvalidType(name, What(Required(last.entry)))}

\* ------------------------------------------------------------------- C7
\* C7: a required array accessor called with no key reads the wrapped value
\* itself: 'body must not be empty' when it is undefined or null, 'body must
\* be an array of <kind>s' when it is not an array of the kind, and
\* otherwise it returns the wrapped array (strings, numbers) or one
\* accessor per element (objects); the path prefix plays no part.
C7_KeylessReadsBody ==
    ( /\ Settled
      /\ last.entry \in ArrayMethods
      /\ last.key = Undefined ) =>
    IF This.quidQuid \in {Undefined, Null}
    THEN last.out = MissingField("body")
    ELSE IF ~OfKind(last.entry, This.quidQuid)
    THEN last.out = InvalidType("body", What(last.entry))
    ELSE ReturnsUnchanged(last.entry, last.out, This.quidQuid)

\* pickStringArray() on the body ["a", "b"].
C7_Witness ==
    /\ Settled
    /\ last.entry = "pickStringArray"
    /\ last.key = Undefined
    /\ last.out = Return(Arr(<<Str("a"), Str("b")>>))

\* ------------------------------------------------------------------- C8
\* C8 (as claimed): an array accessor called with any string key, the empty
\* string included, reads value[key] and never the body: MissingField when
\* it is undefined or null (undefined from the optional variant),
\* InvalidType when it is not an array of the kind, and value[key]
\* otherwise.
C8_KeyedReadsField ==
    ( /\ Settled
      /\ Required(last.entry) \in ArrayMethods
      /\ FieldRead ) =>
    IF Field \in {Undefined, Null}
    THEN last.out = (IF last.entry \in OptionalMethods
                     THEN Return(Undefined)
                     ELSE MissingField(FullName(This, last.key)))
    ELSE IF ~OfKind(Required(last.entry), Field)
    THEN last.out = InvalidType(FullName(This, last.key),
                                What(Required(last.entry)))
    ELSE ReturnsUnchanged(Required(last.entry), last.out, Field)

\* ------------------------------------------------------------------- C9
\* The array a pickObjectArray call on accessor `acc` takes its elements
\* from: the wrapped value when no key is given (an empty key is no key to
\* the code, which is C8's subject), the field otherwise.
SourceArray(acc, key) ==
    IF key \in {Undefined, Str("")} THEN acc.quidQuid
    ELSE Read(acc.quidQuid, key)

NonArrayMethods ==
    {"pickString", "pickNumber", "pickBoolean", "pickObject",
     "pickStringOptional", "pickNumberOptional", "pickBooleanOptional",
     "pickObjectOptional"}

\* C9: a successful pickObjectArray, with or without a key and whatever the
\* accessor's prefix, returns one fresh accessor per element, in order, the
\* i-th wrapping exactly the i-th element and none with a path prefix; a
\* failure on field f of a child names just f, and pickNumber on a child
\* returns that child's own element's number.
C9_ObjectArrayChildren ==
    /\ \A i \in DOMAIN heap :
          origin[i].via = "pickObjectArray" =>
             /\ heap[i].parentObjectKey = Undefined
             /\ heap[i].quidQuid =
                   SourceArray(heap[origin[i].parent],
                               origin[i].key).v[origin[i].idx]
    /\ ( /\ Settled
         /\ Required(last.entry) = "pickObjectArray"
         /\ last.out.kind = "return"
         /\ last.out # Return(Undefined) ) =>
       LET arr == SourceArray(This, last.key).v
           base == Len(heap) - Len(arr)
       IN  /\ DOMAIN last.out.value.v = DOMAIN arr
           /\ \A i \in DOMAIN arr :
                 /\ last.out.value.v[i] = Ref(base + i)
                 /\ origin[base + i].via = "pickObjectArray"
                 /\ origin[base + i].parent = last.self
                 /\ origin[base + i].idx = i
                 /\ heap[base + i].quidQuid = arr[i]
    /\ ( /\ Settled
         /\ origin[last.self].via = "pickObjectArray"
         /\ last.entry \in NonArrayMethods ) =>
       LET o == origin[last.self]
           element == SourceArray(heap[o.parent], o.key).v[o.idx]
       IN  /\ last.out.kind = "throw" =>
                last.out \in {MissingField(last.key.v),
                              InvalidType(last.key.v,
                                          What(Required(last.entry)))}
           /\ (last.entry = "pickNumber" /\ last.out.kind = "return") =>
                last.out.value = Read(element, last.key)

\* pickNumber("a") on the second child of [{a: 1}, {a: 2}] returns 2.
C9_Witness ==
    /\ Settled
    /\ last.entry = "pickNumber"
    /\ origin[last.self].via = "pickObjectArray"
    /\ origin[last.self].idx = 2
    /\ This.parentObjectKey = Undefined
    /\ last.out = Return(Num(2))

\* ------------------------------------------------------------------ C10
\* C10: every accessor is as it was constructed (wrapped value and path
\* prefix), whatever calls have returned, failed or are in flight, on it
\* or on its children; and the outcome of every call, settled under any
\* interleaving with another call, is the outcome the call has when it
\* runs alone.
AccessorsUnchanged ==
    \A i \in DOMAIN heap : heap[i] = origin[i].made

OutcomeAsAlone ==
    Settled =>
       Observed(last.out, heap) = Alone(last.entry, This, last.key)

C10_ReadsOnlyAndCommute == AccessorsUnchanged /\ OutcomeAsAlone

\* A call on an accessor has settled with a result while another call on
\* the same accessor, begun before it, is still in flight, and a child
\* accessor has been made.
C10_Witness ==
    /\ Settled
    /\ last.out.kind = "return"
    /\ Len(heap) > 1
    /\ \E c \in DOMAIN pend :
          /\ pend[c].kind = "await"
          /\ pend[c].self = last.self

=============================================================================
